---- MODULE Spec2Model ----
(***************************************************************************)
(* Model of src/call.py: a Streamlit script that stores an uploaded PDF in *)
(* a temporary file, runs Tesseract OCR on every page, turns the text of   *)
(* each page into a table of rows and cells, merges the page tables, shows *)
(* a preview and offers the merged table as a spreadsheet download.        *)
(*                                                                         *)
(* A string of the program is a sequence of one-character strings; a cell  *)
(* is such a string, a row a sequence of cells.                            *)
(***************************************************************************)
EXTENDS Integers, Sequences, FiniteSets, TLC

VARIABLES pc, pdf_path, tmp_exists, num_pages, i, ocr_log,
          extracted_data_blocks, dataframes, final_merged_df, excel_bytes,
          preview, ui, text, page_data

vars == <<pc, pdf_path, tmp_exists, num_pages, i, ocr_log,
          extracted_data_blocks, dataframes, final_merged_df, excel_bytes,
          preview, ui, text, page_data>>

(* ------------------------------ bounds --------------------------------- *)

\* largest page count of an uploaded PDF
MaxPages == 2
\* largest number of lines of one page's OCR text
MaxLines == 2
\* longest OCR text of the line-splitting specification
MaxTextLen == 7

(* ----------------------------- characters ------------------------------ *)

SP == " "
TAB == "\t"
NL == "\n"

\* str.isspace / regex \s, on the characters the model uses
IsSpace(c) == c \in {SP, TAB, NL}

(* --------------------------- string functions -------------------------- *)

RECURSIVE lstrip(_)
lstrip(s) ==
    IF s = <<>> THEN <<>>
    ELSE IF IsSpace(Head(s)) THEN lstrip(Tail(s)) ELSE s

RECURSIVE rstrip(_)
rstrip(s) ==
    IF s = <<>> THEN <<>>
    ELSE IF IsSpace(s[Len(s)]) THEN rstrip(SubSeq(s, 1, Len(s) - 1)) ELSE s

\* line.strip()
strip(s) == rstrip(lstrip(s))

\* text.split('\n'): always at least one piece
RECURSIVE SplitFrom(_, _, _)
SplitFrom(s, cur, out) ==
    IF s = <<>> THEN Append(out, cur)
    ELSE IF Head(s) = NL THEN SplitFrom(Tail(s), <<>>, Append(out, cur))
    ELSE SplitFrom(Tail(s), Append(cur, Head(s)), out)

split_newline(s) == SplitFrom(s, <<>>, <<>>)

\* the characters left after the leading whitespace run is consumed
RECURSIVE SkipSpace(_)
SkipSpace(s) ==
    IF s # <<>> /\ IsSpace(Head(s)) THEN SkipSpace(Tail(s)) ELSE s

\* re.split(r'\s{2,}', s): scan left to right, a greedy match of two or
\* more whitespace characters ends the current piece
RECURSIVE ReSplitFrom(_, _, _)
ReSplitFrom(s, cur, out) ==
    IF s = <<>> THEN Append(out, cur)
    ELSE IF Len(s) >= 2 /\ IsSpace(s[1]) /\ IsSpace(s[2])
         THEN ReSplitFrom(SkipSpace(s), <<>>, Append(out, cur))
         ELSE ReSplitFrom(Tail(s), Append(cur, Head(s)), out)

\* re.split(r'\s+', s): one whitespace character is enough to end a piece
RECURSIVE ReSplitAnyFrom(_, _, _)
ReSplitAnyFrom(s, cur, out) ==
    IF s = <<>> THEN Append(out, cur)
    ELSE IF IsSpace(s[1])
         THEN ReSplitAnyFrom(SkipSpace(s), <<>>, Append(out, cur))
         ELSE ReSplitAnyFrom(Tail(s), Append(cur, Head(s)), out)

re_split_any_space(s) == ReSplitAnyFrom(s, <<>>, <<>>)

re_split(s) == ReSplitFrom(s, <<>>, <<>>)

\* the list comprehension of line 84, over the pieces of line 81
\* the comprehension of line 84 without its filter: a blank line gives the
\* row re.split returns for the empty string
RECURSIVE RowsOfAllLines(_)
RowsOfAllLines(lines) ==
    IF lines = <<>> THEN <<>>
    ELSE <<re_split(strip(Head(lines)))>> \o RowsOfAllLines(Tail(lines))

PageDataKeepsBlank(t) == RowsOfAllLines(split_newline(t))

RECURSIVE RowsOfLines(_)
RowsOfLines(lines) ==
    IF lines = <<>> THEN <<>>
    ELSE IF strip(Head(lines)) # <<>>
         THEN <<re_split(strip(Head(lines)))>> \o RowsOfLines(Tail(lines))
         ELSE RowsOfLines(Tail(lines))

PageData(t) == RowsOfLines(split_newline(t))

(* ------------------------------- tables -------------------------------- *)

\* the value pandas puts in a short row of DataFrame(list of lists)
NoneCell == <<"None">>
\* the value pd.concat puts in the columns a narrower frame lacks
NaNCell == <<"NaN">>

Max(a, b) == IF a >= b THEN a ELSE b

RECURSIVE MaxRowLen(_)
MaxRowLen(rows) ==
    IF rows = <<>> THEN 0 ELSE Max(Len(Head(rows)), MaxRowLen(Tail(rows)))

PadRow(row, n, filler) == row \o [k \in 1..(n - Len(row)) |-> filler]

\* pd.DataFrame(page_data, columns=None): as many columns as the longest row
DataFrame(rows) ==
    [ncols |-> MaxRowLen(rows),
     rows  |-> [r \in 1..Len(rows) |-> PadRow(rows[r], MaxRowLen(rows), NoneCell)]]

\* df.empty
df_empty(df) == df.ncols = 0 \/ Len(df.rows) = 0

RECURSIVE MaxCols(_)
MaxCols(dfs) ==
    IF dfs = <<>> THEN 0 ELSE Max(Head(dfs).ncols, MaxCols(Tail(dfs)))

\* the rows of the frames with a row that repeats an earlier one left out
RECURSIVE DropDuplicates(_, _)
DropDuplicates(rows, seen) ==
    IF rows = <<>> THEN <<>>
    ELSE IF Head(rows) \in seen THEN DropDuplicates(Tail(rows), seen)
    ELSE <<Head(rows)>> \o DropDuplicates(Tail(rows), seen \cup {Head(rows)})

RECURSIVE StackRows(_, _)
StackRows(dfs, n) ==
    IF dfs = <<>> THEN <<>>
    ELSE [r \in 1..Len(Head(dfs).rows) |-> PadRow(Head(dfs).rows[r], n, NaNCell)]
         \o StackRows(Tail(dfs), n)

\* pd.concat followed by drop_duplicates
pd_concat_dedup(dfs) ==
    [ncols |-> MaxCols(dfs), rows |-> DropDuplicates(StackRows(dfs, MaxCols(dfs)), {})]

\* pd.concat(dataframes, ignore_index=True) of a non-empty list: the rows of
\* the frames in list order, over the union of their integer column labels
pd_concat(dfs) == [ncols |-> MaxCols(dfs), rows |-> StackRows(dfs, MaxCols(dfs))]

\* rows shown by final_merged_df.head(15)
PreviewRows == 15

head(df) ==
    [ncols |-> df.ncols,
     rows  |-> SubSeq(df.rows, 1, IF Len(df.rows) < PreviewRows THEN Len(df.rows) ELSE PreviewRows)]

(* --------------------------- optional values --------------------------- *)

\* a Python value that is either None or a list of DataFrames
NoneList == [none |-> TRUE, val |-> <<>>]
SomeList(l) == [none |-> FALSE, val |-> l]

\* a Python value that is either None or a DataFrame
NoFrame == [none |-> TRUE, ncols |-> 0, rows |-> <<>>]
SomeFrame(df) == [none |-> FALSE, ncols |-> df.ncols, rows |-> df.rows]

\* a Python value that is either None or the bytes of a workbook, given by
\* what the workbook holds: one sheet, a header row of the integer column
\* labels (to_excel writes it unless header=False), then the rows
NoBytes == [none |-> TRUE, sheet |-> "", header |-> <<>>, rows |-> <<>>]

to_excel(df) ==
    [none   |-> FALSE,
     sheet  |-> "Merged_OCR_Result",
     header |-> [k \in 1..df.ncols |-> k - 1],
     rows   |-> df.rows]

\* convert_dfs_to_excel_bytes emptying the caller's list when the writer raises
convert_clears_on_failure(dfs, fault) ==
    IF dfs = <<>>
    THEN [result |-> NoBytes, errors |-> <<>>, dataframes |-> dfs]
    ELSE IF fault = "concat"
    THEN [result |-> NoBytes, errors |-> << <<"error_concat", 0>> >>, dataframes |-> dfs]
    ELSE IF fault = "write"
    THEN [result |-> NoBytes, errors |-> << <<"error_excel", 0>> >>, dataframes |-> <<>>]
    ELSE [result |-> to_excel(pd_concat(dfs)), errors |-> <<>>, dataframes |-> dfs]

\* convert_dfs_to_excel_bytes(dataframes), with the step that raises, if any:
\* fault is "none", "concat" (pd.concat raises) or "write" (the writer
\* raises).  Gives the returned value, the st.error calls and the list the
\* caller passed, as the call leaves it.
convert_dfs_to_excel_bytes(dfs, fault) ==
    IF dfs = <<>>
    THEN [result |-> NoBytes, errors |-> <<>>, dataframes |-> dfs]
    ELSE IF fault = "concat"
    THEN [result |-> NoBytes, errors |-> << <<"error_concat", 0>> >>, dataframes |-> dfs]
    ELSE IF fault = "write"
    THEN [result |-> NoBytes, errors |-> << <<"error_excel", 0>> >>, dataframes |-> dfs]
    ELSE [result |-> to_excel(pd_concat(dfs)), errors |-> <<>>, dataframes |-> dfs]

\* line 125 written as: dataframes is not None
HasDataNotNone(d) == ~d.none

\* the condition of line 125: dataframes and not all(df.empty for df in dataframes)
HasData(d) ==
    /\ ~d.none
    /\ d.val # <<>>
    /\ ~(\A k \in 1..Len(d.val) : df_empty(d.val[k]))

(* ------------------------------- inputs -------------------------------- *)

\* lines an OCR text is made of: a whitespace-only line, a line of one cell,
\* a line of two cells
SampleLines == { <<SP>>, <<"a">>, <<"b", SP, SP, "a">> }

RECURSIVE JoinLines(_)
JoinLines(lines) ==
    IF lines = <<>> THEN <<>>
    ELSE IF Len(lines) = 1 THEN Head(lines)
    ELSE Head(lines) \o <<NL>> \o JoinLines(Tail(lines))

\* the texts pytesseract.image_to_string may return for a page
PageTexts ==
    { JoinLines(ls) : ls \in UNION { [1..n -> SampleLines] : n \in 0..MaxLines } }

\* the name tempfile gives the temporary file
TmpName == "/tmp/upload.pdf"
NonePath == "None"

(* ----------------------------- the script ------------------------------ *)

Init ==
    /\ pc = "upload"
    /\ pdf_path = NonePath
    /\ tmp_exists = FALSE
    /\ num_pages = 0
    /\ i = 0
    /\ ocr_log = <<>>
    /\ extracted_data_blocks = <<>>
    /\ dataframes = SomeList(<<>>)
    /\ final_merged_df = NoFrame
    /\ excel_bytes = NoBytes
    /\ preview = NoFrame
    /\ ui = <<>>
    /\ text = <<>>
    /\ page_data = <<>>

\* line 119: NamedTemporaryFile(delete=False) creates the file
CreateTempFile ==
    /\ pc = "upload"
    /\ tmp_exists' = TRUE
    /\ pc' = "write"
    /\ UNCHANGED <<pdf_path, num_pages, i, ocr_log, extracted_data_blocks, dataframes,
                   final_merged_df, excel_bytes, preview, ui, text, page_data>>

\* line 119 raises: no file is created
CreateTempFileFails ==
    /\ pc = "upload"
    /\ pc' = "except"
    /\ UNCHANGED <<pdf_path, tmp_exists, num_pages, i, ocr_log, extracted_data_blocks,
                   dataframes, final_merged_df, excel_bytes, preview, ui, text, page_data>>

\* lines 120-121: the bytes are written, then pdf_path is assigned
WriteTempFile ==
    /\ pc = "write"
    /\ pdf_path' = TmpName
    /\ pc' = "open"
    /\ UNCHANGED <<tmp_exists, num_pages, i, ocr_log, extracted_data_blocks, dataframes,
                   final_merged_df, excel_bytes, preview, ui, text, page_data>>

\* line 120 raises (uploaded_file.read() or tmp_file.write()): the with block
\* closes the file, which delete=False keeps, and line 121 is not reached
WriteTempFileFails ==
    /\ pc = "write"
    /\ pc' = "except"
    /\ UNCHANGED <<pdf_path, tmp_exists, num_pages, i, ocr_log, extracted_data_blocks,
                   dataframes, final_merged_df, excel_bytes, preview, ui, text, page_data>>

\* lines 61-67: extract_text_with_ocr opens the document
OpenPdf ==
    /\ pc = "open"
    /\ \E n \in 0..MaxPages :
         /\ num_pages' = n
         /\ ui' = Append(ui, <<"info_pages", n>>)
    /\ extracted_data_blocks' = <<>>
    /\ i' = 0
    /\ pc' = "ocr"
    /\ UNCHANGED <<pdf_path, tmp_exists, ocr_log, dataframes, final_merged_df,
                   excel_bytes, preview, text, page_data>>

\* line 64 raises; lines 100-102, then the assignment of line 123
OpenPdfFails ==
    /\ pc = "open"
    /\ ui' = Append(ui, <<"error_ocr", 0>>)
    /\ dataframes' = NoneList
    /\ pc' = "branch"
    /\ UNCHANGED <<pdf_path, tmp_exists, num_pages, i, ocr_log, extracted_data_blocks,
                   final_merged_df, excel_bytes, preview, text, page_data>>

\* lines 69-91: one iteration of the page loop, OCR returning t
OcrPage ==
    /\ pc = "ocr"
    /\ i < num_pages
    /\ \E t \in PageTexts :
         /\ text' = t
         /\ page_data' = PageData(t)
         /\ ocr_log' = Append(ocr_log, [kind |-> "text", out |-> t])
         /\ IF PageData(t) # <<>>
            THEN /\ extracted_data_blocks' = Append(extracted_data_blocks, DataFrame(PageData(t)))
                 /\ ui' = ui
            ELSE /\ extracted_data_blocks' = extracted_data_blocks
                 /\ ui' = Append(ui, <<"warning_page", i + 1>>)
    /\ i' = i + 1
    /\ UNCHANGED <<pc, pdf_path, tmp_exists, num_pages, dataframes, final_merged_df,
                   excel_bytes, preview>>

\* the TesseractNotFoundError handler returning the blocks gathered so far
OcrTesseractNotFoundPartial ==
    /\ pc = "ocr"
    /\ i < num_pages
    /\ ocr_log' = Append(ocr_log, [kind |-> "notfound", out |-> <<>>])
    /\ ui' = ui \o << <<"error_tesseract", 0>>, <<"warning_tesseract", 0>> >>
    /\ dataframes' = SomeList(extracted_data_blocks)
    /\ pc' = "branch"
    /\ UNCHANGED <<pdf_path, tmp_exists, num_pages, i, extracted_data_blocks,
                   final_merged_df, excel_bytes, preview, text, page_data>>

\* line 79 raises TesseractNotFoundError; lines 96-99, then line 123
OcrTesseractNotFound ==
    /\ pc = "ocr"
    /\ i < num_pages
    /\ ocr_log' = Append(ocr_log, [kind |-> "notfound", out |-> <<>>])
    /\ ui' = ui \o << <<"error_tesseract", 0>>, <<"warning_tesseract", 0>> >>
    /\ dataframes' = NoneList
    /\ pc' = "branch"
    /\ UNCHANGED <<pdf_path, tmp_exists, num_pages, i, extracted_data_blocks,
                   final_merged_df, excel_bytes, preview, text, page_data>>

\* one of lines 70-79 raises another exception; lines 100-102, then line 123
OcrException ==
    /\ pc = "ocr"
    /\ i < num_pages
    /\ ocr_log' = Append(ocr_log, [kind |-> "exception", out |-> <<>>])
    /\ ui' = Append(ui, <<"error_ocr", 0>>)
    /\ dataframes' = NoneList
    /\ pc' = "branch"
    /\ UNCHANGED <<pdf_path, tmp_exists, num_pages, i, extracted_data_blocks,
                   final_merged_df, excel_bytes, preview, text, page_data>>

\* lines 93-94 after the last page, then the assignment of line 123
OcrReturn ==
    /\ pc = "ocr"
    /\ i = num_pages
    /\ ui' = Append(ui, <<"success_ocr", 0>>)
    /\ dataframes' = SomeList(extracted_data_blocks)
    /\ pc' = "branch"
    /\ UNCHANGED <<pdf_path, tmp_exists, num_pages, i, ocr_log, extracted_data_blocks,
                   final_merged_df, excel_bytes, preview, text, page_data>>

\* lines 125-131: the merged table is built and previewed
ShowPreview ==
    /\ pc = "branch"
    /\ HasData(dataframes)
    /\ dataframes.val # <<>>
    /\ final_merged_df' = SomeFrame(pd_concat(dataframes.val))
    /\ preview' = SomeFrame(head(pd_concat(dataframes.val)))
    /\ ui' = ui \o << <<"success", 0>>, <<"preview", 0>> >>
    /\ pc' = "export"
    /\ UNCHANGED <<pdf_path, tmp_exists, num_pages, i, ocr_log, extracted_data_blocks,
                   dataframes, excel_bytes, text, page_data>>

\* lines 125-128 with pd.concat raising (it does on an empty list)
PreviewConcatFails ==
    /\ pc = "branch"
    /\ HasData(dataframes)
    /\ ui' = Append(ui, <<"success", 0>>)
    /\ pc' = "except"
    /\ UNCHANGED <<pdf_path, tmp_exists, num_pages, i, ocr_log, extracted_data_blocks,
                   dataframes, final_merged_df, excel_bytes, preview, text, page_data>>

\* lines 145-146
WarnNoData ==
    /\ pc = "branch"
    /\ ~HasData(dataframes)
    /\ ui' = Append(ui, <<"warning_no_data", 0>>)
    /\ pc' = "finally"
    /\ UNCHANGED <<pdf_path, tmp_exists, num_pages, i, ocr_log, extracted_data_blocks,
                   dataframes, final_merged_df, excel_bytes, preview, text, page_data>>

\* line 133
Export ==
    /\ pc = "export"
    /\ \E fault \in {"none", "concat", "write"} :
         LET r == convert_dfs_to_excel_bytes(dataframes.val, fault) IN
           /\ excel_bytes' = r.result
           /\ ui' = ui \o r.errors
           /\ dataframes' = SomeList(r.dataframes)
    /\ pc' = "offer"
    /\ UNCHANGED <<pdf_path, tmp_exists, num_pages, i, ocr_log, extracted_data_blocks,
                   final_merged_df, preview, text, page_data>>

\* the download button offered without the test of line 135
OfferDownloadUnguarded ==
    /\ pc = "offer"
    /\ ui' = Append(ui, <<"download", 0>>)
    /\ pc' = "finally"
    /\ UNCHANGED <<pdf_path, tmp_exists, num_pages, i, ocr_log, extracted_data_blocks,
                   dataframes, final_merged_df, excel_bytes, preview, text, page_data>>

\* lines 135-143
OfferDownload ==
    /\ pc = "offer"
    /\ ~excel_bytes.none
    /\ ui' = Append(ui, <<"download", 0>>)
    /\ pc' = "finally"
    /\ UNCHANGED <<pdf_path, tmp_exists, num_pages, i, ocr_log, extracted_data_blocks,
                   dataframes, final_merged_df, excel_bytes, preview, text, page_data>>

\* line 135 with excel_bytes None
NoDownload ==
    /\ pc = "offer"
    /\ excel_bytes.none
    /\ pc' = "finally"
    /\ UNCHANGED <<pdf_path, tmp_exists, num_pages, i, ocr_log, extracted_data_blocks,
                   dataframes, final_merged_df, excel_bytes, preview, ui, text, page_data>>

\* lines 148-149
HandleException ==
    /\ pc = "except"
    /\ ui' = Append(ui, <<"error_processing", 0>>)
    /\ pc' = "finally"
    /\ UNCHANGED <<pdf_path, tmp_exists, num_pages, i, ocr_log, extracted_data_blocks,
                   dataframes, final_merged_df, excel_bytes, preview, text, page_data>>

\* lines 151-153
Finally ==
    /\ pc = "finally"
    /\ tmp_exists' = IF pdf_path # NonePath /\ tmp_exists THEN FALSE ELSE tmp_exists
    /\ pc' = "done"
    /\ UNCHANGED <<pdf_path, num_pages, i, ocr_log, extracted_data_blocks, dataframes,
                   final_merged_df, excel_bytes, preview, ui, text, page_data>>

Next ==
    \/ CreateTempFile
    \/ CreateTempFileFails
    \/ WriteTempFile
    \/ WriteTempFileFails
    \/ OpenPdf
    \/ OpenPdfFails
    \/ OcrPage
    \/ OcrTesseractNotFound
    \/ OcrException
    \/ OcrReturn
    \/ ShowPreview
    \/ PreviewConcatFails
    \/ WarnNoData
    \/ Export
    \/ OfferDownload
    \/ NoDownload
    \/ HandleException
    \/ Finally

Spec == Init /\ [][Next]_vars

(* ------------------- the line splitting, on its own -------------------- *)

Alphabet == {"a", SP, TAB, NL}

\* every text over the alphabet, up to the bound
AllTexts == UNION { [1..n -> Alphabet] : n \in 0..MaxTextLen }

SplitInit ==
    /\ pc = "split"
    /\ text \in AllTexts
    /\ page_data = <<>>
    /\ pdf_path = NonePath
    /\ tmp_exists = FALSE
    /\ num_pages = 0
    /\ i = 0
    /\ ocr_log = <<>>
    /\ extracted_data_blocks = <<>>
    /\ dataframes = SomeList(<<>>)
    /\ final_merged_df = NoFrame
    /\ excel_bytes = NoBytes
    /\ preview = NoFrame
    /\ ui = <<>>

\* lines 81-84 applied to text
SplitText ==
    /\ pc = "split"
    /\ page_data' = PageData(text)
    /\ pc' = "split_done"
    /\ UNCHANGED <<pdf_path, tmp_exists, num_pages, i, ocr_log, extracted_data_blocks,
                   dataframes, final_merged_df, excel_bytes, preview, ui, text>>

SplitNext == SplitText

SplitSpec == SplitInit /\ [][SplitNext]_vars

(* ------------------ vocabulary of the properties ----------------------- *)

\* the elements of a finite set of integers, smallest first
RECURSIVE Sorted(_)
Sorted(S) ==
    IF S = {} THEN <<>>
    ELSE LET m == CHOOSE x \in S : \A y \in S : x <= y
         IN  <<m>> \o Sorted(S \ {m})

Shown(kind) == \E k \in 1..Len(ui) : ui[k][1] = kind

ShownAt(kind) == CHOOSE k \in 1..Len(ui) : ui[k][1] = kind

ErrorKinds ==
    {"error_tesseract", "error_ocr", "error_processing", "error_concat", "error_excel"}

ErrorShown == \E k \in 1..Len(ui) : ui[k][1] \in ErrorKinds

\* the lines of a text: what lies between one newline (or the start) and
\* the next (or the end)
LinesOf(t) ==
    LET B == Sorted({0} \cup {p \in 1..Len(t) : t[p] = NL} \cup {Len(t) + 1})
    IN  [k \in 1..(Len(B) - 1) |-> SubSeq(t, B[k] + 1, B[k + 1] - 1)]

IsBlank(l) == \A p \in 1..Len(l) : IsSpace(l[p])

NonBlankLinesOf(t) == SelectSeq(LinesOf(t), LAMBDA l : ~IsBlank(l))

\* a non-blank line without its leading and trailing whitespace
Trimmed(l) ==
    LET N == {p \in 1..Len(l) : ~IsSpace(l[p])}
    IN  SubSeq(l, CHOOSE p \in N : \A q \in N : p <= q,
                  CHOOSE p \in N : \A q \in N : q <= p)

\* position p of T lies in a run of two or more whitespace characters
InLongRun(T, p) ==
    /\ IsSpace(T[p])
    /\ \/ (p > 1 /\ IsSpace(T[p - 1]))
       \/ (p < Len(T) /\ IsSpace(T[p + 1]))

\* the number of runs of two or more whitespace characters of T
LongRuns(T) ==
    Cardinality({p \in 1..Len(T) : InLongRun(T, p) /\ (p = 1 \/ ~IsSpace(T[p - 1]))})

\* the maximal segments of T that no such run touches, left to right
SegmentsOf(T) ==
    LET Out    == {p \in 1..Len(T) : ~InLongRun(T, p)}
        Starts == Sorted({p \in Out : p = 1 \/ (p - 1) \notin Out})
        Ends   == Sorted({p \in Out : p = Len(T) \/ (p + 1) \notin Out})
    IN  [k \in 1..Len(Starts) |-> SubSeq(T, Starts[k], Ends[k])]

HasAdjacentSpaces(c) == \E p \in 1..(Len(c) - 1) : IsSpace(c[p]) /\ IsSpace(c[p + 1])

\* the rows the non-blank lines of a text stand for
RowsOfText(t) ==
    LET L == NonBlankLinesOf(t)
    IN  [r \in 1..Len(L) |-> SegmentsOf(Trimmed(L[r]))]

\* the rows of the pages OCR returned a text for, page after page
RECURSIVE RowsOfPages(_)
RowsOfPages(log) ==
    IF log = <<>> THEN <<>>
    ELSE (IF Head(log).kind = "text" THEN RowsOfText(Head(log).out) ELSE <<>>)
         \o RowsOfPages(Tail(log))

\* no page of the log has a row: each is a text of whitespace only
NoRows(log) ==
    \A k \in 1..Len(log) : log[k].kind = "text" /\ IsBlank(log[k].out)

\* a table row without the cells that only fill it up to the table's width
Unpadded(row) == SelectSeq(row, LAMBDA c : c \notin {NoneCell, NaNCell})

UnpaddedRows(rows) == [r \in 1..Len(rows) |-> Unpadded(rows[r])]

RECURSIVE RowsOfFrames(_)
RowsOfFrames(dfs) ==
    IF dfs = <<>> THEN <<>> ELSE Head(dfs).rows \o RowsOfFrames(Tail(dfs))

OcrFailed == \E k \in 1..Len(ocr_log) : ocr_log[k].kind # "text"

\* OCR ran on every page and extract_text_with_ocr returned its list
OcrCompleted == Shown("success_ocr")

(* ------------------------------ properties ----------------------------- *)

\* C7: every row of a page is the list of the maximal segments of one
\* trimmed non-blank line that runs of two or more whitespace characters
\* separate: k runs give k + 1 cells, a line with single whitespace
\* characters only gives the trimmed line as its one cell, no cell is empty
\* and no cell holds two adjacent whitespace characters.
C7_CellsAreSegments ==
    pc = "split_done" =>
      LET L == NonBlankLinesOf(text) IN
        /\ Len(page_data) = Len(L)
        /\ \A r \in 1..Len(L) :
             LET T == Trimmed(L[r])
                 cells == page_data[r]
             IN  /\ cells = SegmentsOf(T)
                 /\ Len(cells) = LongRuns(T) + 1
                 /\ (LongRuns(T) = 0 => cells = <<T>>)
                 /\ \A c \in 1..Len(cells) :
                      cells[c] # <<>> /\ ~HasAdjacentSpaces(cells[c])

\* a line with two runs, one of a space and a tab, was split in three cells
C7_Witness ==
    /\ pc = "split_done"
    /\ \E r \in 1..Len(page_data) : Len(page_data[r]) = 3
    /\ text = <<"a", SP, TAB, "a", SP, SP, "a">>

\* C1: once the run has ended, the temporary file it created no longer
\* exists, whatever path the run took.
C1_TempFileDeleted == pc = "done" => ~tmp_exists

\* C2: when recognition raises an exception other than the engine being
\* unavailable, the run still processes every page and the rows of the
\* other pages are in the aggregated table.
C2_FailureScopedToItem ==
    (pc = "done" /\ \E k \in 1..Len(ocr_log) : ocr_log[k].kind = "exception") =>
      /\ Len(ocr_log) = num_pages
      /\ (RowsOfPages(ocr_log) # <<>> =>
            /\ ~final_merged_df.none
            /\ UnpaddedRows(final_merged_df.rows) = RowsOfPages(ocr_log))

\* C3: when the engine is found unavailable on a page, no later page is
\* processed, extract_text_with_ocr returns None and not the rows of the
\* earlier pages, and neither a preview nor a download is produced.
C3_EngineUnavailableAborts ==
    \A k \in 1..Len(ocr_log) :
      ocr_log[k].kind = "notfound" =>
        /\ k = Len(ocr_log)
        /\ i = k - 1
        /\ pc \in {"branch", "finally", "done"}
        /\ dataframes = NoneList
        /\ final_merged_df.none /\ preview.none /\ excel_bytes.none
        /\ ~Shown("preview") /\ ~Shown("download")

\* the engine went missing on page 2 after page 1 had yielded rows
C3_Witness ==
    /\ pc = "done"
    /\ Len(ocr_log) = 2
    /\ ocr_log[2].kind = "notfound"
    /\ extracted_data_blocks # <<>>

\* C4: when OCR completes and every page yields zero rows, the list of page
\* tables is empty, the export is never reached, no preview and no artifact
\* exist, the run ends with the 'no data' warning, and the export function
\* returns None for the empty list.
C4_EmptyResultNoArtifact ==
    (OcrCompleted /\ NoRows(ocr_log)) =>
      /\ dataframes = SomeList(<<>>)
      /\ pc \in {"branch", "finally", "done"}
      /\ final_merged_df.none /\ preview.none /\ excel_bytes.none
      /\ ~Shown("preview") /\ ~Shown("download") /\ ~Shown("success")
      /\ (pc \in {"finally", "done"} => Shown("warning_no_data"))
      /\ \A fault \in {"none", "concat", "write"} :
           convert_dfs_to_excel_bytes(dataframes.val, fault).result = NoBytes

\* a run over two pages without a non-blank line has ended
C4_Witness ==
    /\ pc = "done"
    /\ OcrCompleted
    /\ Len(ocr_log) = 2
    /\ NoRows(ocr_log)

\* C5: at the end of a run that completed OCR on all pages, the rows of
\* the returned page tables, of the merged table and of the artifact are the
\* non-blank lines of page 1, then of page 2, and so on, in line order, one
\* row for each line: as many rows as non-blank lines, equal lines giving
\* equal rows.  (RowsOfPages has one row for each non-blank line.)
C5_RowsInPageOrder ==
    (pc = "done" /\ OcrCompleted) =>
      LET rows  == RowsOfPages(ocr_log)
          lines == Len(rows)
      IN  /\ ~dataframes.none
          /\ Len(RowsOfFrames(dataframes.val)) = lines
          /\ UnpaddedRows(RowsOfFrames(dataframes.val)) = rows
          /\ (~final_merged_df.none =>
                /\ Len(final_merged_df.rows) = lines
                /\ UnpaddedRows(final_merged_df.rows) = rows)
          /\ (~excel_bytes.none =>
                /\ Len(excel_bytes.rows) = lines
                /\ UnpaddedRows(excel_bytes.rows) = rows)

\* a two-page run was exported whose table has the same row twice, and a
\* row of the second page that differs from the rows of the first
C5_Witness ==
    /\ pc = "done"
    /\ Shown("download")
    /\ Len(ocr_log) = 2
    /\ Len(excel_bytes.rows) = 3
    /\ excel_bytes.rows[1] = excel_bytes.rows[2]
    /\ excel_bytes.rows[3] # excel_bytes.rows[1]
    /\ Len(RowsOfText(ocr_log[1].out)) = 2

\* C6: a page whose text has no non-blank line adds no rows and one
\* warning, no error: the loop goes on to the next page and the tables
\* gathered from the other pages stay as they are.
C6_BlankPageIsAdvisory ==
    [][ ( /\ pc = "ocr"
          /\ Len(ocr_log') = Len(ocr_log) + 1
          /\ ocr_log'[Len(ocr_log')].kind = "text"
          /\ IsBlank(ocr_log'[Len(ocr_log')].out) )
        => ( /\ pc' = "ocr"
             /\ i' = i + 1
             /\ extracted_data_blocks' = extracted_data_blocks
             /\ dataframes' = dataframes
             /\ ui' = Append(ui, <<"warning_page", i + 1>>) ) ]_vars

\* a run whose first page was blank offered the rows of its second page
C6_Witness ==
    /\ pc = "done"
    /\ Len(ocr_log) = 2
    /\ ocr_log[1].kind = "text" /\ IsBlank(ocr_log[1].out)
    /\ \E k \in 1..Len(ui) : ui[k] = <<"warning_page", 1>>
    /\ Shown("download")
    /\ UnpaddedRows(excel_bytes.rows) = RowsOfText(ocr_log[2].out)

\* C8: an export that fails reports one error and returns no artifact, and
\* leaves the page tables and the merged table as they were, so that an
\* export of the tables it leaves gives what an export of the tables it
\* found gives, which is the workbook of the merged table.
C8_FailedExportKeepsTables ==
    [][ (pc = "export" /\ pc' = "offer" /\ excel_bytes'.none)
        => ( /\ Len(ui') = Len(ui) + 1
             /\ ui'[Len(ui')][1] \in {"error_concat", "error_excel"}
             /\ dataframes' = dataframes
             /\ extracted_data_blocks' = extracted_data_blocks
             /\ final_merged_df' = final_merged_df
             /\ convert_dfs_to_excel_bytes(dataframes'.val, "none").result
                  = convert_dfs_to_excel_bytes(dataframes.val, "none").result
             /\ ~convert_dfs_to_excel_bytes(dataframes'.val, "none").result.none
             /\ convert_dfs_to_excel_bytes(dataframes'.val, "none").result.rows
                  = final_merged_df.rows ) ]_vars

\* a run whose spreadsheet writer raised has ended, preview shown
C8_Witness ==
    /\ pc = "done"
    /\ Shown("error_excel")
    /\ ~final_merged_df.none
    /\ excel_bytes.none
    /\ ~Shown("download")

\* C9: the 'no data' warning is shown only in a run that completed OCR on
\* every page with zero rows, and never together with the success message
\* or with an error message.
C9_EmptyOutcomeDistinct ==
    Shown("warning_no_data") =>
      /\ OcrCompleted
      /\ NoRows(ocr_log)
      /\ ~Shown("success")
      /\ ~ErrorShown

\* C10: a download is offered only after OCR completed on every page
\* without an exception, some page yielded a row and the export returned
\* bytes, and only after the preview of the rows the artifact holds.
C10_DownloadOnlyAfterPreview ==
    Shown("download") =>
      /\ OcrCompleted
      /\ ~OcrFailed
      /\ Len(ocr_log) = num_pages
      /\ ~NoRows(ocr_log)
      /\ ~excel_bytes.none
      /\ ~ErrorShown
      /\ Shown("preview")
      /\ ShownAt("preview") < ShownAt("download")
      /\ ~final_merged_df.none /\ ~preview.none
      /\ excel_bytes.rows = final_merged_df.rows
      /\ preview.rows = SubSeq(final_merged_df.rows, 1, Len(preview.rows))
      /\ (Len(final_merged_df.rows) <= PreviewRows => preview.rows = final_merged_df.rows)

\* a two-page run has ended with the download on offer
C10_Witness ==
    /\ pc = "done"
    /\ Shown("download")
    /\ num_pages = 2
    /\ ~excel_bytes.none

====
